---- MODULE Spec2Model ----
(***************************************************************************)
(* shutdown_db: the shared registry of shut-down databases (hashtable.c),  *)
(* the administrative functions that use it (functions.c) and the killer   *)
(* background worker (bgworker.c), as a state machine of concurrent        *)
(* processes.                                                              *)
(*                                                                         *)
(* Granularity.  Every LWLock critical section and every spinlock          *)
(* critical section of the source is one atomic step: sddb->lock held in   *)
(* exclusive mode excludes every other holder, and the shared-mode         *)
(* sections only read.  Code between two critical sections is local to     *)
(* the process and is folded into the step that precedes it.               *)
(*                                                                         *)
(* The hash table.  hash_search is taken by its interface: HASH_FIND       *)
(* returns the element of the key or NULL, HASH_ENTER_NULL returns the     *)
(* element of the key, a new one if the key has none, or NULL when no      *)
(* element can be had, HASH_REMOVE unlinks the element of the key.  Two    *)
(* things are assumed of it.  The table is created with HASH_ELEM alone,   *)
(* so dynahash hashes and compares the 4-byte key as a C string: the       *)
(* database oids of the model are ones whose keys differ under that        *)
(* comparison.  The table can hold max_db_number elements and the shared   *)
(* memory segment has no room for more, so HASH_ENTER_NULL of a new key    *)
(* into a table of max_db_number elements returns NULL.                    *)
(***************************************************************************)
EXTENDS Integers, Sequences, FiniteSets, TLC

(* enum mode, shutdown_db.h *)
INIT == 0
NORMAL == 1
ABORT == 2
IMMEDIATE == 3
TRANSACTIONAL == 4

(* PostgreSQL's "no process" and "no object" values *)
InvalidPid == -1
InvalidOid == 0
(* a NULL sddbEntry pointer *)
NULL == 0

(* ---- bounds of the model ---- *)
(* shutdown_db.max_db_number: the number of elements of the hash table *)
MaxDbNumber == 1
(* the number of requests the backends issue in one behaviour *)
MaxCalls == 2
MaxCycleCalls == 3
(* the number of raw registry calls issued in one behaviour *)
MaxApiCalls == 3

(* element addresses of the shared hash table *)
Slots == 1 .. MaxDbNumber
(* oids of the user databases of the cluster *)
Dbids == {1, 2, 3}
(* the database names a request can give, and pg_database.oid of each *)
DbNames == {"db1", "db2", "postgres", "Template0"}
Oid == [n \in DbNames |->
           CASE n = "db1" -> 1 [] n = "db2" -> 2
             [] n = "Template0" -> 4 [] n = "postgres" -> 5]
(* the name folded to lower case, as pg_strcasecmp compares it *)
Lower == [n \in DbNames |-> IF n = "Template0" THEN "template0" ELSE n]
(* client backends (pids) *)
Backends == {101, 102}
(* the pids killer workers get *)
KillerPids == {201, 202}
(* the pid of the worker that runs shutdown_db_init *)
InitWorker == 301
Procs == Backends \cup KillerPids \cup {InitWorker}

VARIABLES
    sddb_hash,      \* element memory: slot -> [key, mode, is_running, pid]
    freelist,       \* the unused elements of the table, next to allocate first
    num_ht,         \* sddb->num_ht
    num_bgw,        \* sddb->num_bgw
    proc,           \* per process: position, current function, locals
    datallowconn,   \* pg_database.datallowconn of each database
    ncalls,         \* top-level calls issued so far
    committed,      \* history: keys whose store returned true, no delete issued since
    covered,        \* history: processes in a find that began with its key committed
    answers,        \* history: per process in a find, the answers that have been
                    \* correct at some instant of the call so far
    orphans,        \* history: the live killer workers whose database has had
                    \* its record removed since they were launched
    lk              \* per process, at the level of single lock calls: the
                    \* function it is in, the calls it has still to make,
                    \* and the locks it holds

vars == <<sddb_hash, freelist, num_ht, num_bgw, proc, datallowconn, ncalls,
          committed, covered, answers, orphans, lk>>

(* ---- the hash table (dynahash, as hashtable.c uses it) ---- *)

(* an element is in the table iff it is not on the free list *)
InUse(s) == \A i \in 1 .. Len(freelist) : freelist[i] # s

(* hash_search(sddb_hash, &key, HASH_FIND, NULL): the element or NULL *)
hash_find(key) ==
    IF \E s \in Slots : InUse(s) /\ sddb_hash[s].key = key
    THEN CHOOSE s \in Slots : InUse(s) /\ sddb_hash[s].key = key
    ELSE NULL

(* the keys that have a record *)
Keys == {sddb_hash[s].key : s \in {t \in Slots : InUse(t)}}

(* the record of a key that has one *)
Rec(key) == sddb_hash[hash_find(key)]

(* ---- processes ---- *)

(* the frame of a process at rest: no function running, locals cleared *)
Idle ==
    [pc |-> "idle", fn |-> "none", op |-> "none",
     dbid |-> InvalidOid, mode |-> INIT, is_running |-> FALSE,
     pid |-> InvalidPid, entry |-> NULL, ret |-> FALSE,
     did |-> <<>>, outcome |-> "none", msg |-> "none", undo |-> "none",
     got_sigterm |-> FALSE, xact_block |-> FALSE, had_record |-> FALSE,
     rows |-> {}]

(* a killer worker that has not been launched, and one that has exited *)
Unborn == [Idle EXCEPT !.pc = "unborn"]
Exited(status) == [Idle EXCEPT !.pc = "exited", !.outcome = status]

ShutdownFns == {"shutdown_normal", "shutdown_abort", "shutdown_immediate",
                "shutdown_transactional"}

(* the positions inside each registry operation *)
StorePcs == {"store_probe", "store_excl", "store_inc"}
FindPcs == {"find_quick", "find_lookup", "find_read"}
DeletePcs == {"delete_rm", "delete_dec"}

(* the function of f returns to the client with elog level o at most *)
Exit(f, o) ==
    [f EXCEPT !.pc = "exit", !.entry = NULL,
              !.outcome = IF o = "none" THEN "OK" ELSE o]

(* what the caller does with the value v a registry operation returns. *)
(* A raw caller of the registry keeps it, and the message the call     *)
(* logged, and is at rest again.                                       *)
AfterApi(f, v) == [Idle EXCEPT !.ret = v, !.msg = f.msg]

(* functions.c: shutdown_*() after sddb_find_entry (lines 284-289, ...)  *)
(* and after sddb_store_entry (301-305, 351-355, 409-413, 461-470)       *)
AfterInShutdown(f, v) ==
    LET g == [f EXCEPT !.ret = v, !.entry = NULL]
    IN  IF f.op = "find"
        THEN IF v THEN Exit(g, "WARNING") ELSE [g EXCEPT !.pc = "alter"]
        ELSE CASE f.fn = "shutdown_normal" -> Exit(g, g.outcome)
               [] f.fn = "shutdown_abort" -> [g EXCEPT !.pc = "kill_pids"]
               [] f.fn = "shutdown_immediate" -> [g EXCEPT !.pc = "kill_pids"]
               [] f.fn = "shutdown_transactional" ->
                      IF v THEN [g EXCEPT !.pc = "launch"]
                      ELSE [g EXCEPT !.pc = "error"]

(* functions.c: startup() after sddb_find_entry, lines 503-508 *)
AfterInStartup(f, v) ==
    LET g == [f EXCEPT !.ret = v, !.entry = NULL]
    IN  IF v THEN [g EXCEPT !.pc = "alter"] ELSE Exit(g, "WARNING")

(* bgworker.c: sddb_killer_main() after sddb_set_pid2entry (line 394) *)
(* and after sddb_set_entry (line 471); both results are dropped      *)
AfterInKiller(f, v) ==
    LET g == [f EXCEPT !.ret = v, !.entry = NULL]
    IN  IF f.op = "set_pid2entry"
        THEN [g EXCEPT !.pc = "bgw_inc"]
        ELSE [g EXCEPT !.pc = "bgw_dec"]

(* shutdown_db.c: the hooks after sddb_check_ht, lines 271-275 and *)
(* 318-322: the session is warned unless it is in a transaction    *)
(* block                                                           *)
AfterInHook(f, v) ==
    LET g == [f EXCEPT !.ret = v, !.entry = NULL]
    IN  IF v /\ ~f.xact_block THEN Exit(g, "WARNING") ELSE Exit(g, "OK")

(* bgworker.c: shutdown_db_init() after sddb_store_entry, line 354: *)
(* the result is dropped and the loop goes to the next row          *)
AfterInInit(f, v) ==
    [f EXCEPT !.ret = v, !.entry = NULL, !.pc = "init_next"]

After(f, v) ==
    CASE f.fn = "api" -> AfterApi(f, v)
      [] f.fn = "shutdown_db_init" -> AfterInInit(f, v)
      [] f.fn = "sddb_ExecutorStart" -> AfterInHook(f, v)
      [] f.fn \in ShutdownFns -> AfterInShutdown(f, v)
      [] f.fn = "startup" -> AfterInStartup(f, v)
      [] f.fn = "sddb_killer_main" -> AfterInKiller(f, v)

(* sddb_get_pid returns v: startup(), functions.c lines 519-527, signals *)
(* the killer when there is one and calls sddb_delete_entry next         *)
AfterPid(f, v) ==
    IF f.fn = "api" THEN [Idle EXCEPT !.pid = v]
    ELSE IF v # InvalidPid
    THEN [f EXCEPT !.pc = "kill_bgworker", !.pid = v]
    ELSE [f EXCEPT !.pc = "delete_rm", !.op = "delete", !.is_running = FALSE]

(* sddb_delete_entry returns: startup(), functions.c line 529 *)
AfterVoid(f) ==
    IF f.fn = "api" THEN Idle ELSE Exit(f, f.outcome)

(* the processes followed at the level of lock calls, and the frame of *)
(* one that is in no function and holds nothing                        *)
Lockers == Backends \cup {201}
LkIdle ==
    [op |-> "none", todo |-> <<>>, lock |-> "none", spin |-> "none",
     took |-> FALSE]

(* ---- history variables ---- *)

(* process p calls sddb_delete_entry in this step *)
IssuesDelete(p) == proc'[p].pc = "delete_rm" /\ proc[p].pc # "delete_rm"

(* process p calls sddb_find_entry(dbid, false) in this step *)
IssuesFind(p) ==
    /\ proc'[p].pc = "find_quick"
    /\ proc[p].pc \notin FindPcs
    /\ ~proc'[p].is_running

(* d has a record in the next state, one with is_running set when r *)
PresentNext(d, r) ==
    \E s \in Slots :
        /\ \A i \in 1 .. Len(freelist') : freelist'[i] # s
        /\ sddb_hash'[s].key = d
        /\ r => sddb_hash'[s].is_running

(* committed: a key enters when a store of it returns true and leaves    *)
(* when a delete of it is issued.  covered: a process enters when it     *)
(* issues find(d, false) with d committed, and leaves when a delete of d *)
(* is issued or its find returns.  answers: while a process is in a      *)
(* find, the answer that is correct in each state the call has been      *)
(* through is added.  orphans: a killer worker of d enters when          *)
(* sddb_delete_entry(d) runs its removal and leaves when it exits.       *)
History(p) ==
    /\ committed' =
          IF IssuesDelete(p) THEN committed \ {proc'[p].dbid}
          ELSE IF proc[p].pc = "store_inc" THEN committed \cup {proc[p].dbid}
          ELSE committed
    /\ covered' =
          LET kept == IF IssuesDelete(p)
                      THEN {q \in covered : proc[q].dbid # proc'[p].dbid}
                      ELSE covered
              new == IF IssuesFind(p) /\ proc'[p].dbid \in committed
                     THEN {p} ELSE {}
          IN  {q \in kept \cup new : proc'[q].pc \in FindPcs}
    /\ answers' =
          [q \in Procs |->
              IF proc'[q].pc \notin FindPcs THEN {}
              ELSE (IF proc[q].pc \in FindPcs THEN answers[q] ELSE {})
                      \cup {PresentNext(proc'[q].dbid, proc'[q].is_running)}]
    /\ orphans' =
          LET new == IF proc[p].pc = "delete_rm"
                     THEN {w \in KillerPids : proc[w].dbid = proc[p].dbid}
                     ELSE {}
          IN  {w \in orphans \cup new :
                  /\ proc[w].fn = "sddb_killer_main"
                  /\ proc'[w].fn = "sddb_killer_main"}
    /\ lk' = lk

(* ---- alloc_entry ---- *)

(* fault injection: an alloc_entry that, when the table is full, takes *)
(* the element of another key instead of returning NULL                *)
alloc_entry_evict(key) ==
    IF hash_find(key) # NULL
    THEN [entry |-> hash_find(key), found |-> TRUE,
          hash |-> sddb_hash, free |-> freelist]
    ELSE IF freelist = <<>>
    THEN [entry |-> 1, found |-> FALSE,
          hash |-> [sddb_hash EXCEPT ![1] =
                       [key |-> key, mode |-> INIT,
                        is_running |-> FALSE, pid |-> InvalidPid]],
          free |-> freelist]
    ELSE [entry |-> Head(freelist), found |-> FALSE,
          hash |-> [sddb_hash EXCEPT ![Head(freelist)] =
                       [key |-> key, mode |-> INIT,
                        is_running |-> FALSE, pid |-> InvalidPid]],
          free |-> Tail(freelist)]

(* alloc_entry(key), hashtable.c: hash_search(HASH_ENTER_NULL) and the   *)
(* initialisation of a new element.  The result: the element (or NULL    *)
(* when the table is full), whether the key was found, and the table     *)
(* and free list afterwards.                                             *)
alloc_entry(key) ==
    IF hash_find(key) # NULL
    THEN [entry |-> hash_find(key), found |-> TRUE,
          hash |-> sddb_hash, free |-> freelist]
    ELSE IF freelist = <<>>
    THEN [entry |-> NULL, found |-> FALSE,
          hash |-> sddb_hash, free |-> freelist]
    ELSE [entry |-> Head(freelist), found |-> FALSE,
          hash |-> [sddb_hash EXCEPT ![Head(freelist)] =
                       [key |-> key, mode |-> INIT,
                        is_running |-> FALSE, pid |-> InvalidPid]],
          free |-> Tail(freelist)]

(* ---- sddb_store_entry(dbid, mode, is_running) ---- *)

(* lines 78-86: the probe under the shared lock *)
store_probe(p) ==
    /\ proc[p].pc = "store_probe"
    /\ proc' = [proc EXCEPT ![p] =
                   IF hash_find(proc[p].dbid) # NULL
                   THEN After([proc[p] EXCEPT !.outcome = "WARNING",
                                              !.msg = "already stored"],
                              FALSE)
                   ELSE [proc[p] EXCEPT !.pc = "store_excl"]]
    /\ UNCHANGED <<sddb_hash, freelist, num_ht, num_bgw, datallowconn, ncalls>>
    /\ History(p)

(* lines 88-109: under the exclusive lock, alloc_entry and the stores *)
(* into the element it returned                                      *)
store_excl(p) ==
    /\ proc[p].pc = "store_excl"
    /\ LET f == proc[p]
           a == alloc_entry(f.dbid)
       IN  IF a.entry = NULL
           THEN /\ proc' = [proc EXCEPT ![p] =
                               After([f EXCEPT !.outcome = "WARNING",
                                               !.msg = "hash table is full"],
                                     FALSE)]
                /\ UNCHANGED <<sddb_hash, freelist>>
           ELSE /\ sddb_hash' = [a.hash EXCEPT ![a.entry] =
                                    [key |-> f.dbid, mode |-> f.mode,
                                     is_running |-> f.is_running,
                                     pid |-> InvalidPid]]
                /\ freelist' = a.free
                /\ proc' = [proc EXCEPT ![p] = [f EXCEPT !.pc = "store_inc"]]
    /\ UNCHANGED <<num_ht, num_bgw, datallowconn, ncalls>>
    /\ History(p)

(* lines 111-115: the counter, under elock *)
store_inc(p) ==
    /\ proc[p].pc = "store_inc"
    /\ num_ht' = num_ht + 1
    /\ proc' = [proc EXCEPT ![p] = After(proc[p], TRUE)]
    /\ UNCHANGED <<sddb_hash, freelist, num_bgw, datallowconn, ncalls>>
    /\ History(p)

(* ---- sddb_find_entry(dbid, is_running) ---- *)

(* lines 133-140: the quick check of num_ht under elock *)
find_quick(p) ==
    /\ proc[p].pc = "find_quick"
    /\ proc' = [proc EXCEPT ![p] =
                   IF num_ht = 0
                   THEN After(proc[p], FALSE)
                   ELSE [proc[p] EXCEPT !.pc = "find_lookup"]]
    /\ UNCHANGED <<sddb_hash, freelist, num_ht, num_bgw, datallowconn, ncalls>>
    /\ History(p)

(* lines 145-151 and 168: the lookup under the shared lock; the pointer *)
(* is kept after the lock is released when is_running is asked for      *)
find_lookup(p) ==
    /\ proc[p].pc = "find_lookup"
    /\ LET f == proc[p]
           e == hash_find(f.dbid)
       IN  proc' = [proc EXCEPT ![p] =
                       IF e = NULL THEN After(f, FALSE)
                       ELSE IF ~f.is_running THEN After(f, TRUE)
                       ELSE [f EXCEPT !.pc = "find_read", !.entry = e]]
    /\ UNCHANGED <<sddb_hash, freelist, num_ht, num_bgw, datallowconn, ncalls>>
    /\ History(p)

(* lines 153-166: e->is_running read under the element's mutex, with *)
(* sddb->lock no longer held: whatever the element holds by now      *)
find_read(p) ==
    /\ proc[p].pc = "find_read"
    /\ proc' = [proc EXCEPT ![p] =
                   After(proc[p], sddb_hash[proc[p].entry].is_running)]
    /\ UNCHANGED <<sddb_hash, freelist, num_ht, num_bgw, datallowconn, ncalls>>
    /\ History(p)

(* ---- sddb_get_pid(dbid, is_active), lines 195-218 ---- *)
sddb_get_pid(p) ==
    /\ proc[p].pc = "get_pid"
    /\ LET f == proc[p]
           e == hash_find(f.dbid)
       IN  proc' = [proc EXCEPT ![p] =
                       IF e = NULL THEN AfterPid(f, InvalidPid)
                       ELSE IF ~f.is_running THEN AfterPid(f, sddb_hash[e].pid)
                       ELSE IF sddb_hash[e].is_running
                            THEN AfterPid(f, sddb_hash[e].pid)
                            ELSE AfterPid(f, InvalidPid)]
    /\ UNCHANGED <<sddb_hash, freelist, num_ht, num_bgw, datallowconn, ncalls>>
    /\ History(p)

(* fault injection: a sddb_set_entry that also resets the pid of the *)
(* record                                                           *)
sddb_set_entry_clobber(p) ==
    /\ proc[p].pc = "set_entry"
    /\ LET f == proc[p]
           e == hash_find(f.dbid)
       IN  IF e = NULL
           THEN /\ proc' = [proc EXCEPT ![p] = After(f, FALSE)]
                /\ UNCHANGED sddb_hash
           ELSE /\ sddb_hash' = [sddb_hash EXCEPT
                                    ![e].is_running = f.is_running,
                                    ![e].pid = InvalidPid]
                /\ proc' = [proc EXCEPT ![p] = After(f, TRUE)]
    /\ UNCHANGED <<freelist, num_ht, num_bgw, datallowconn, ncalls>>
    /\ History(p)

(* ---- sddb_set_entry(dbid, is_running), lines 238-257 ---- *)
sddb_set_entry(p) ==
    /\ proc[p].pc = "set_entry"
    /\ LET f == proc[p]
           e == hash_find(f.dbid)
       IN  IF e = NULL
           THEN /\ proc' = [proc EXCEPT ![p] = After(f, FALSE)]
                /\ UNCHANGED sddb_hash
           ELSE /\ sddb_hash' = [sddb_hash EXCEPT
                                    ![e].is_running = f.is_running]
                /\ proc' = [proc EXCEPT ![p] = After(f, TRUE)]
    /\ UNCHANGED <<freelist, num_ht, num_bgw, datallowconn, ncalls>>
    /\ History(p)

(* ---- sddb_set_pid2entry(dbid, pid), lines 279-298 ---- *)
sddb_set_pid2entry(p) ==
    /\ proc[p].pc = "set_pid2entry"
    /\ LET f == proc[p]
           e == hash_find(f.dbid)
       IN  IF e = NULL
           THEN /\ proc' = [proc EXCEPT ![p] = After(f, FALSE)]
                /\ UNCHANGED sddb_hash
           ELSE /\ sddb_hash' = [sddb_hash EXCEPT ![e].pid = f.pid]
                /\ proc' = [proc EXCEPT ![p] = After(f, TRUE)]
    /\ UNCHANGED <<freelist, num_ht, num_bgw, datallowconn, ncalls>>
    /\ History(p)

(* ---- sddb_delete_entry(dbid) ---- *)

(* lines 316-318: hash_search(HASH_REMOVE) under the exclusive lock; its *)
(* result, which the code drops, is kept in entry.  A removed element    *)
(* goes to the head of the free list with its contents as they were.     *)
delete_rm(p) ==
    /\ proc[p].pc = "delete_rm"
    /\ LET f == proc[p]
           e == hash_find(f.dbid)
       IN  /\ freelist' = IF e = NULL THEN freelist ELSE <<e>> \o freelist
           /\ proc' = [proc EXCEPT ![p] =
                          [f EXCEPT !.pc = "delete_dec", !.entry = e]]
    /\ UNCHANGED <<sddb_hash, num_ht, num_bgw, datallowconn, ncalls>>
    /\ History(p)

(* lines 320-323: the counter, under elock.  Assert(0 < sddb->num_ht)    *)
(* is compiled out: bgworker.c asserts on sddb->num_hbgw, which is no    *)
(* member of sddbSharedState, so the module only builds with assertions  *)
(* disabled.                                                             *)
delete_dec(p) ==
    /\ proc[p].pc = "delete_dec"
    /\ num_ht' = num_ht - 1
    /\ proc' = [proc EXCEPT ![p] = AfterVoid(proc[p])]
    /\ UNCHANGED <<sddb_hash, freelist, num_bgw, datallowconn, ncalls>>
    /\ History(p)

(* one step of a registry operation in progress in process p *)
StoreStep(p) == store_probe(p) \/ store_excl(p) \/ store_inc(p)
FindStep(p) == find_quick(p) \/ find_lookup(p) \/ find_read(p)
DeleteStep(p) == delete_rm(p) \/ delete_dec(p)

(* ---- raw calls of the registry (any process may issue any of them) ---- *)

(* the (mode, is_running) pairs and the pids the raw calls pass *)
ApiStores == {<<NORMAL, FALSE>>, <<TRANSACTIONAL, TRUE>>}
ApiPids == {201}

(* process p, at rest, calls a registry operation *)
Enter(p, o, first, d, m, r, w) ==
    /\ proc[p].pc = "idle"
    /\ ncalls < MaxApiCalls
    /\ ncalls' = ncalls + 1
    /\ proc' = [proc EXCEPT ![p] =
                   [Idle EXCEPT !.pc = first, !.fn = "api", !.op = o,
                                !.dbid = d, !.mode = m, !.is_running = r,
                                !.pid = w]]
    /\ UNCHANGED <<sddb_hash, freelist, num_ht, num_bgw, datallowconn>>
    /\ History(p)

CallStore(p, keys) ==
    \E d \in keys, a \in ApiStores :
        Enter(p, "store", "store_probe", d, a[1], a[2], InvalidPid)

CallFind(p) ==
    \E d \in Dbids, r \in BOOLEAN :
        Enter(p, "find", "find_quick", d, INIT, r, InvalidPid)

CallGetPid(p) ==
    \E d \in Dbids, r \in BOOLEAN :
        Enter(p, "get_pid", "get_pid", d, INIT, r, InvalidPid)

CallSetEntry(p) ==
    \E d \in Dbids, r \in BOOLEAN :
        Enter(p, "set_entry", "set_entry", d, INIT, r, InvalidPid)

CallSetPid(p) ==
    \E d \in Dbids, w \in ApiPids :
        Enter(p, "set_pid2entry", "set_pid2entry", d, INIT, FALSE, w)

CallDelete(p, keys) ==
    \E d \in keys : Enter(p, "delete", "delete_rm", d, INIT, FALSE, InvalidPid)

(* ---- functions.c: the administrative functions ---- *)

(* fault injection: a check_dbname that compares the name as it is *)
(* written                                                        *)
check_dbname_exact(dbname) ==
    dbname \notin {"postgres", "template0", "template1"}

(* check_dbname, lines 90-101 *)
check_dbname(dbname) ==
    Lower[dbname] \notin {"postgres", "template0", "template1"}

(* the text of the ERROR a refused name gets, lines 277 and 493 *)
Refusal(fn) ==
    IF fn = "startup" THEN " cannot be started up." ELSE " cannot be shutdown."

(* the arguments each shutdown function passes to sddb_store_entry *)
StoreMode(fn) ==
    CASE fn = "shutdown_normal" -> NORMAL
      [] fn = "shutdown_abort" -> ABORT
      [] fn = "shutdown_immediate" -> IMMEDIATE
      [] fn = "shutdown_transactional" -> TRANSACTIONAL

(* the head of shutdown_*() and startup(): the privilege check, the   *)
(* check of the name, get_dbid, and the call of sddb_find_entry.  A   *)
(* refused call raises ERROR before anything else is done.            *)
Request(p, fns, names, max) ==
    /\ proc[p].pc = "idle"
    /\ ncalls < max
    /\ ncalls' = ncalls + 1
    /\ \E fn \in fns, dbname \in names, allowed \in BOOLEAN :
          proc' = [proc EXCEPT ![p] =
                      IF ~allowed
                      THEN Exit([Idle EXCEPT !.fn = fn,
                                             !.msg = "no-privilege"], "ERROR")
                      ELSE IF ~check_dbname(dbname)
                      THEN Exit([Idle EXCEPT !.fn = fn,
                                             !.msg = dbname \o Refusal(fn)],
                                "ERROR")
                      ELSE [Idle EXCEPT !.fn = fn, !.op = "find",
                                        !.pc = "find_quick",
                                        !.dbid = Oid[dbname],
                                        !.had_record = Oid[dbname] \in Keys]]
    /\ UNCHANGED <<sddb_hash, freelist, num_ht, num_bgw, datallowconn>>
    /\ History(p)

(* a client calls any of the five functions with any name *)
Call(p) == Request(p, ShutdownFns \cup {"startup"}, DbNames, MaxCalls)

(* a client shuts db1 down in transactional mode or starts it up *)
CallCycle(p) ==
    Request(p, {"shutdown_transactional", "startup"}, {"db1"}, MaxCycleCalls)

(* the row of database d in pg_database has been updated by a         *)
(* transaction other than p's that has not ended                      *)
RowHeld(d, p) ==
    \E q \in Backends \ {p} : proc[q].undo # "none" /\ proc[q].dbid = d

(* the backends whose ALTER DATABASE of d may be waiting for the      *)
(* transaction of q to end                                            *)
Waiters(d, q) ==
    {x \in Backends \ {q} : proc[x].pc = "alter" /\ proc[x].dbid = d}

(* do_alter_database, lines 154-171, and the call that follows it:    *)
(* sddb_store_entry in shutdown_*(), sddb_get_pid(dbid, true) in      *)
(* startup().  The statement updates the row of the database, which   *)
(* it can do only when no other open transaction has updated it.  The *)
(* flag's old value is kept for the case the transaction aborts.      *)
do_alter_database(p) ==
    /\ proc[p].pc = "alter"
    /\ ~RowHeld(proc[p].dbid, p)
    /\ LET f == proc[p]
           g == [f EXCEPT !.did = Append(f.did, "alter"),
                          !.undo = IF datallowconn[f.dbid] THEN "true"
                                   ELSE "false"]
       IN  /\ datallowconn' = [datallowconn EXCEPT
                                  ![f.dbid] = (f.fn = "startup")]
           /\ proc' = [proc EXCEPT ![p] =
                          IF f.fn = "startup"
                          THEN [g EXCEPT !.pc = "get_pid", !.op = "get_pid",
                                         !.is_running = TRUE]
                          ELSE [g EXCEPT !.pc = "store_probe", !.op = "store",
                                         !.mode = StoreMode(f.fn),
                                         !.is_running =
                                            (f.fn = "shutdown_transactional")]]
    /\ UNCHANGED <<sddb_hash, freelist, num_ht, num_bgw, ncalls>>
    /\ History(p)

(* kill_pids(dbid, false), lines 177-193: shutdown_abort goes on to the *)
(* checkpoint, shutdown_immediate returns                               *)
kill_pids(p) ==
    /\ proc[p].pc = "kill_pids"
    /\ LET g == [proc[p] EXCEPT !.did = Append(proc[p].did, "kill_pids")]
       IN  proc' = [proc EXCEPT ![p] =
                       IF g.fn = "shutdown_abort"
                       THEN [g EXCEPT !.pc = "checkpoint"]
                       ELSE Exit(g, g.outcome)]
    /\ UNCHANGED <<sddb_hash, freelist, num_ht, num_bgw, datallowconn, ncalls>>
    /\ History(p)

(* do_checkpoint, lines 198-213 *)
do_checkpoint(p) ==
    /\ proc[p].pc = "checkpoint"
    /\ LET g == [proc[p] EXCEPT !.did = Append(proc[p].did, "checkpoint")]
       IN  proc' = [proc EXCEPT ![p] = Exit(g, g.outcome)]
    /\ UNCHANGED <<sddb_hash, freelist, num_ht, num_bgw, datallowconn, ncalls>>
    /\ History(p)

(* the frame sddb_killer_main(dbid) starts in, in the process with pid w: *)
(* its first shared access is sddb_set_pid2entry(dbid, MyProcPid)         *)
KillerStart(w, d) ==
    [Idle EXCEPT !.fn = "sddb_killer_main", !.op = "set_pid2entry",
                 !.pc = "set_pid2entry", !.dbid = d, !.pid = w]

(* run_sddb_killer, lines 218-236, which runs sddb_killer_launch,       *)
(* bgworker.c lines 490-537: the worker is registered and started, and  *)
(* the function returns; or registration is refused (or the worker has  *)
(* stopped), which raises ERROR.                                        *)
run_sddb_killer(p) ==
    /\ proc[p].pc = "launch"
    /\ LET f == proc[p]
           free == {w \in KillerPids : proc[w].pc = "unborn"}
       IN  \/ /\ free # {}
              /\ LET w == CHOOSE x \in free : \A y \in free : x <= y
                 IN  proc' = [proc EXCEPT
                        ![p] = Exit([f EXCEPT !.did = Append(f.did, "launch")],
                                    f.outcome),
                        ![w] = KillerStart(w, f.dbid)]
           \/ proc' = [proc EXCEPT ![p] = [f EXCEPT !.pc = "error"]]
    /\ UNCHANGED <<sddb_hash, freelist, num_ht, num_bgw, datallowconn, ncalls>>
    /\ History(p)

(* kill_bgworker(pid), lines 241-253: pg_terminate_backend sends SIGTERM *)
(* to the process if it is alive; sddb_killer_sigterm, bgworker.c lines  *)
(* 72-80, sets got_sigterm and the latch.  startup() then calls          *)
(* sddb_delete_entry.                                                    *)
kill_bgworker(p) ==
    /\ proc[p].pc = "kill_bgworker"
    /\ LET f == proc[p]
           g == [f EXCEPT !.did = Append(f.did, "kill_bgworker"),
                          !.pc = "delete_rm", !.op = "delete",
                          !.is_running = FALSE]
           alive == /\ f.pid \in KillerPids
                    /\ proc[f.pid].pc \notin {"unborn", "exited"}
       IN  proc' = IF alive
                   THEN [proc EXCEPT ![p] = g, ![f.pid].got_sigterm = TRUE]
                   ELSE [proc EXCEPT ![p] = g]
    /\ UNCHANGED <<sddb_hash, freelist, num_ht, num_bgw, datallowconn, ncalls>>
    /\ History(p)

(* elog(ERROR) in a function: the transaction aborts, which undoes its  *)
(* change of pg_database if it has made one; shared memory is left as   *)
(* it is.                                                               *)
abort_transaction(p) ==
    /\ proc[p].pc = "error"
    /\ datallowconn' = IF proc[p].undo = "none" THEN datallowconn
                       ELSE [datallowconn EXCEPT
                                ![proc[p].dbid] = (proc[p].undo = "true")]
    /\ proc' = [proc EXCEPT ![p] =
                   Exit([proc[p] EXCEPT !.undo = "none"], "ERROR")]
    /\ UNCHANGED <<sddb_hash, freelist, num_ht, num_bgw, ncalls>>
    /\ History(p)

(* the function of process p has returned to its client and its        *)
(* transaction ends.  When it commits an update of the row of a         *)
(* database, an ALTER DATABASE that has been waiting for it fails with  *)
(* ERROR ("tuple concurrently updated"); a backend that has not issued  *)
(* its statement yet is not affected.                                   *)
Finish(p) ==
    /\ proc[p].pc = "exit"
    /\ \E W \in SUBSET Waiters(proc[p].dbid, p) :
          /\ proc[p].undo = "none" => W = {}
          /\ proc' = [x \in Procs |->
                         IF x = p THEN Idle
                         ELSE IF x \in W THEN [proc[x] EXCEPT !.pc = "error"]
                         ELSE proc[x]]
    /\ UNCHANGED <<sddb_hash, freelist, num_ht, num_bgw, datallowconn, ncalls>>
    /\ History(p)

(* ---- functions.c: sddb_show_db ---- *)

(* what hash_seq_search finds: one row per element in the table *)
TableRows ==
    {<<sddb_hash[s].key, sddb_hash[s].mode, sddb_hash[s].is_running>> :
        s \in {t \in Slots : InUse(t)}}

(* fault injection: a sddb_show_db that reads the table for every caller *)
sddb_show_db_any(p) ==
    /\ proc[p].pc = "idle"
    /\ ncalls < MaxCalls
    /\ ncalls' = ncalls + 1
    /\ \E is_allowed_role \in BOOLEAN :
          proc' = [proc EXCEPT ![p] =
                      Exit([Idle EXCEPT !.fn = "sddb_show_db",
                                        !.ret = is_allowed_role,
                                        !.rows = TableRows], "OK")]
    /\ UNCHANGED <<sddb_hash, freelist, num_ht, num_bgw, datallowconn>>
    /\ History(p)

(* sddb_show_db, lines 536-620: a member of pg_read_all_stats gets the *)
(* rows of the table, read in one section under sddb->lock in shared   *)
(* mode (lines 596-616); every writer of a record holds the lock in    *)
(* exclusive mode, so none runs inside the section.  Any other caller  *)
(* gets the empty tuplestore.                                          *)
sddb_show_db(p) ==
    /\ proc[p].pc = "idle"
    /\ ncalls < MaxCalls
    /\ ncalls' = ncalls + 1
    /\ \E is_allowed_role \in BOOLEAN :
          proc' = [proc EXCEPT ![p] =
                      Exit([Idle EXCEPT !.fn = "sddb_show_db",
                                        !.ret = is_allowed_role,
                                        !.rows = IF is_allowed_role
                                                 THEN TableRows ELSE {}],
                           "OK")]
    /\ UNCHANGED <<sddb_hash, freelist, num_ht, num_bgw, datallowconn>>
    /\ History(p)

(* ---- shutdown_db.c: the hooks ---- *)

(* sddb_ExecutorStart and sddb_ProcessUtility, lines 263-276 and        *)
(* 282-323, in a session of database d that is or is not in a           *)
(* transaction block: both run sddb_check_ht after the statement's      *)
(* standard processing                                                  *)
HookCall(p) ==
    /\ proc[p].pc = "idle"
    /\ ncalls < MaxCalls
    /\ ncalls' = ncalls + 1
    /\ \E d \in {Oid[n] : n \in DbNames}, b \in BOOLEAN :
          proc' = [proc EXCEPT ![p] =
                      [Idle EXCEPT !.fn = "sddb_ExecutorStart",
                                   !.pc = "check_ht", !.dbid = d,
                                   !.xact_block = b,
                                   !.had_record =
                                       d \in Keys \cap committed]]
    /\ UNCHANGED <<sddb_hash, freelist, num_ht, num_bgw, datallowconn>>
    /\ History(p)

(* sddb_check_ht, lines 243-258: the quick check of num_ht, then *)
(* sddb_find_entry(MyDatabaseId, true)                           *)
sddb_check_ht(p) ==
    /\ proc[p].pc = "check_ht"
    /\ proc' = [proc EXCEPT ![p] =
                   IF num_ht = 0
                   THEN AfterInHook(proc[p], FALSE)
                   ELSE [proc[p] EXCEPT !.pc = "find_quick", !.op = "find",
                                        !.is_running = TRUE]]
    /\ UNCHANGED <<sddb_hash, freelist, num_ht, num_bgw, datallowconn, ncalls>>
    /\ History(p)

(* ---- bgworker.c: sddb_killer_main ---- *)

(* lines 396-399 *)
bgw_inc(w) ==
    /\ proc[w].pc = "bgw_inc"
    /\ num_bgw' = num_bgw + 1
    /\ proc' = [proc EXCEPT ![w].pc = "loop"]
    /\ UNCHANGED <<sddb_hash, freelist, num_ht, datallowconn, ncalls>>
    /\ History(w)

(* line 404, the loop condition; line 484 when it fails *)
bgw_loop(w) ==
    /\ proc[w].pc = "loop"
    /\ proc' = [proc EXCEPT ![w] =
                   IF proc[w].got_sigterm THEN Exited("proc_exit(1)")
                   ELSE [proc[w] EXCEPT !.pc = "wait"]]
    /\ UNCHANGED <<sddb_hash, freelist, num_ht, num_bgw, datallowconn, ncalls>>
    /\ History(w)

(* lines 410-437: WaitLatch returns, on the timeout or on the latch; a *)
(* SIGTERM seen now ends the worker                                    *)
bgw_wait(w) ==
    /\ proc[w].pc = "wait"
    /\ IF proc[w].got_sigterm
       THEN /\ num_bgw' = num_bgw - 1
            /\ proc' = [proc EXCEPT ![w] = Exited("proc_exit(0)")]
       ELSE /\ num_bgw' = num_bgw
            /\ proc' = [proc EXCEPT ![w].pc = "query"]
    /\ UNCHANGED <<sddb_hash, freelist, num_ht, datallowconn, ncalls>>
    /\ History(w)

(* lines 439-471: sddb_kill_processes(dbid, TRUE) returns the number of *)
(* backends still in a transaction: none left, sddb_set_entry(dbid,     *)
(* false) is called; some left, the loop goes round; the query fails,   *)
(* elog(FATAL) ends the process                                         *)
bgw_query(w) ==
    /\ proc[w].pc = "query"
    /\ \/ \E running_processes \in {0, 1} :
             proc' = [proc EXCEPT ![w] =
                         IF running_processes = 0
                         THEN [proc[w] EXCEPT !.pc = "set_entry",
                                              !.op = "set_entry",
                                              !.is_running = FALSE]
                         ELSE [proc[w] EXCEPT !.pc = "loop"]]
       \/ proc' = [proc EXCEPT ![w] = Exited("proc_exit(1)")]
    /\ UNCHANGED <<sddb_hash, freelist, num_ht, num_bgw, datallowconn, ncalls>>
    /\ History(w)

(* fault injection: the worker exits without the decrement of num_bgw *)
bgw_dec_skip(w) ==
    /\ proc[w].pc = "bgw_dec"
    /\ num_bgw' = num_bgw
    /\ proc' = [proc EXCEPT ![w] = Exited("proc_exit(0)")]
    /\ UNCHANGED <<sddb_hash, freelist, num_ht, datallowconn, ncalls>>
    /\ History(w)

(* lines 474-480 *)
bgw_dec(w) ==
    /\ proc[w].pc = "bgw_dec"
    /\ num_bgw' = num_bgw - 1
    /\ proc' = [proc EXCEPT ![w] = Exited("proc_exit(0)")]
    /\ UNCHANGED <<sddb_hash, freelist, num_ht, datallowconn, ncalls>>
    /\ History(w)

(* ---- the initial state: sddb_shmem_startup ---- *)
Init ==
    /\ sddb_hash = [s \in Slots |->
                       [key |-> InvalidOid, mode |-> INIT,
                        is_running |-> FALSE, pid |-> 0]]
    /\ freelist = [i \in 1 .. MaxDbNumber |-> i]
    /\ num_ht = 0
    /\ num_bgw = 0
    /\ proc = [p \in Procs |-> IF p \in Backends THEN Idle ELSE Unborn]
    /\ datallowconn = [d \in Dbids \cup {Oid[n] : n \in DbNames} |-> TRUE]
    /\ ncalls = 0
    /\ committed = {}
    /\ covered = {}
    /\ answers = [q \in Procs |-> {}]
    /\ orphans = {}
    /\ lk = [p \in Lockers |-> LkIdle]

(* ---- the registry under arbitrary raw calls ---- *)
NextApi ==
    \E p \in Backends :
        \/ CallStore(p, Dbids)
        \/ CallFind(p)
        \/ CallGetPid(p)
        \/ CallSetEntry(p)
        \/ CallSetPid(p)
        \/ CallDelete(p, Dbids)
        \/ StoreStep(p)
        \/ FindStep(p)
        \/ sddb_get_pid(p)
        \/ sddb_set_entry(p)
        \/ sddb_set_pid2entry(p)
        \/ DeleteStep(p)

SpecApi == Init /\ [][NextApi]_vars

(* ---- the registry under stores and deletes, each process on keys ---- *)
(* ---- of its own                                                  ---- *)
Own == [p \in Backends |-> {p - 100}]

NextDisjoint ==
    \E p \in Backends :
        \/ CallStore(p, Own[p])
        \/ CallDelete(p, Own[p])
        \/ StoreStep(p)
        \/ DeleteStep(p)

SpecDisjoint == Init /\ [][NextDisjoint]_vars

(* ---- the server: backends run the administrative functions, killer ---- *)
(* ---- workers run sddb_killer_main                                  ---- *)
Next ==
    \/ \E p \in Backends :
          \/ Call(p)
          \/ HookCall(p)
          \/ sddb_check_ht(p)
          \/ sddb_show_db(p)
          \/ do_alter_database(p)
          \/ kill_pids(p)
          \/ do_checkpoint(p)
          \/ run_sddb_killer(p)
          \/ kill_bgworker(p)
          \/ abort_transaction(p)
          \/ Finish(p)
    \/ \E w \in KillerPids :
          \/ bgw_inc(w)
          \/ bgw_loop(w)
          \/ bgw_wait(w)
          \/ bgw_query(w)
          \/ bgw_dec(w)
    \/ \E p \in Procs :
          \/ StoreStep(p)
          \/ FindStep(p)
          \/ sddb_get_pid(p)
          \/ sddb_set_entry(p)
          \/ sddb_set_pid2entry(p)
          \/ DeleteStep(p)

Spec == Init /\ [][Next]_vars

(* the server with killer workers that run: a worker that can take a *)
(* step of sddb_killer_main takes it in the end; what its query      *)
(* returns is left open                                              *)
SpecWatch ==
    /\ Init
    /\ [][Next]_vars
    /\ \A w \in KillerPids :
          /\ WF_vars(sddb_set_pid2entry(w))
          /\ WF_vars(bgw_inc(w))
          /\ WF_vars(bgw_loop(w))
          /\ WF_vars(bgw_wait(w))
          /\ WF_vars(bgw_query(w))
          /\ WF_vars(sddb_set_entry(w))
          /\ WF_vars(bgw_dec(w))

(* ---- bgworker.c: shutdown_db_init, the worker of server start ---- *)

(* the databases of pg_database *)
Databases == {Oid[n] : n \in DbNames}

(* lines 327-332: the rows of SELECT oid FROM pg_database WHERE        *)
(* datallowconn = false AND datname NOT IN ('template0', 'template1',  *)
(* 'postgres')                                                         *)
DisallowedDbs ==
    {Oid[n] : n \in {m \in DbNames :
                        /\ m \notin {"template0", "template1", "postgres"}
                        /\ ~datallowconn[Oid[m]]}}

(* lines 327-341: the query; a failure raises ERROR, which ends the *)
(* worker                                                           *)
init_query(p) ==
    /\ proc[p].pc = "init_query"
    /\ \/ proc' = [proc EXCEPT ![p] =
                       [proc[p] EXCEPT !.pc = "init_next",
                                       !.rows = DisallowedDbs]]
       \/ proc' = [proc EXCEPT ![p] = Exited("proc_exit(1)")]
    /\ UNCHANGED <<sddb_hash, freelist, num_ht, num_bgw, datallowconn, ncalls>>
    /\ History(p)

(* lines 343-360: the next row of the result, in whatever order the  *)
(* scan has returned them, is passed to sddb_store_entry(dbid, INIT, *)
(* false); after the last one the worker commits and exits           *)
init_next(p) ==
    /\ proc[p].pc = "init_next"
    /\ \/ /\ proc[p].rows = {}
          /\ proc' = [proc EXCEPT ![p] = Exited("proc_exit(0)")]
       \/ \E d \in proc[p].rows :
             proc' = [proc EXCEPT ![p] =
                         [proc[p] EXCEPT !.rows = proc[p].rows \ {d},
                                         !.op = "store",
                                         !.pc = "store_probe",
                                         !.dbid = d, !.mode = INIT,
                                         !.is_running = FALSE]]
    /\ UNCHANGED <<sddb_hash, freelist, num_ht, num_bgw, datallowconn, ncalls>>
    /\ History(p)

(* the server starts: the registry is empty (sddb_shmem_startup), any *)
(* database may have been left with connections disallowed, and the   *)
(* worker has connected and is about to run its query                 *)
InitBoot ==
    /\ sddb_hash = [s \in Slots |->
                       [key |-> InvalidOid, mode |-> INIT,
                        is_running |-> FALSE, pid |-> 0]]
    /\ freelist = [i \in 1 .. MaxDbNumber |-> i]
    /\ num_ht = 0
    /\ num_bgw = 0
    /\ proc = [p \in Procs |->
                  IF p \in Backends THEN Idle
                  ELSE IF p = InitWorker
                  THEN [Idle EXCEPT !.fn = "shutdown_db_init",
                                    !.pc = "init_query"]
                  ELSE Unborn]
    /\ \E F \in SUBSET Databases :
          datallowconn = [d \in Dbids \cup Databases |-> d \notin F]
    /\ ncalls = 0
    /\ committed = {}
    /\ covered = {}
    /\ answers = [q \in Procs |-> {}]
    /\ orphans = {}
    /\ lk = [p \in Lockers |-> LkIdle]

NextBoot ==
    \/ init_query(InitWorker)
    \/ init_next(InitWorker)
    \/ StoreStep(InitWorker)

SpecBoot == InitBoot /\ [][NextBoot]_vars

(* ---- the lock calls of the registry operations ---- *)

(* the calls each function makes on sddb->lock, on the mutex of a record *)
(* and on elock, in program order, one sequence per path through the     *)
(* function; "return" ends a registry operation                          *)

(* fault injection: a sddb_store_entry whose full-table path returns *)
(* without LWLockRelease                                             *)
store_paths_leak ==
    {<<"LW_SHARED", "LWLockRelease", "return">>,
     <<"LW_SHARED", "LWLockRelease", "LW_EXCLUSIVE", "return">>,
     <<"LW_SHARED", "LWLockRelease", "LW_EXCLUSIVE",
       "SpinLockAcquire(mutex)", "SpinLockRelease(mutex)", "LWLockRelease",
       "SpinLockAcquire(elock)", "SpinLockRelease(elock)", "return">>}

(* sddb_store_entry, hashtable.c lines 78-115: the record is there; the *)
(* table is full; the record is stored                                  *)
store_paths ==
    {<<"LW_SHARED", "LWLockRelease", "return">>,
     <<"LW_SHARED", "LWLockRelease", "LW_EXCLUSIVE", "LWLockRelease",
       "return">>,
     <<"LW_SHARED", "LWLockRelease", "LW_EXCLUSIVE",
       "SpinLockAcquire(mutex)", "SpinLockRelease(mutex)", "LWLockRelease",
       "SpinLockAcquire(elock)", "SpinLockRelease(elock)", "return">>}

(* fault injection: a sddb_find_entry that reads is_running before it *)
(* releases sddb->lock, and takes the lock with the mutex in hand     *)
find_paths_inverted ==
    {<<"SpinLockAcquire(elock)", "SpinLockRelease(elock)", "return">>,
     <<"SpinLockAcquire(elock)", "SpinLockRelease(elock)",
       "LW_SHARED", "LWLockRelease", "return">>,
     <<"SpinLockAcquire(elock)", "SpinLockRelease(elock)",
       "SpinLockAcquire(mutex)", "LW_SHARED", "SpinLockRelease(mutex)",
       "LWLockRelease", "return">>}

(* sddb_find_entry, lines 133-168: num_ht is 0; the lookup decides; *)
(* is_running is read                                               *)
find_paths ==
    {<<"SpinLockAcquire(elock)", "SpinLockRelease(elock)", "return">>,
     <<"SpinLockAcquire(elock)", "SpinLockRelease(elock)",
       "LW_SHARED", "LWLockRelease", "return">>,
     <<"SpinLockAcquire(elock)", "SpinLockRelease(elock)",
       "LW_SHARED", "LWLockRelease",
       "SpinLockAcquire(mutex)", "SpinLockRelease(mutex)", "return">>}

(* sddb_get_pid, lines 195-218, sddb_set_entry, lines 238-257, and *)
(* sddb_set_pid2entry, lines 279-298: no record; a record          *)
field_paths ==
    {<<"LW_EXCLUSIVE", "LWLockRelease", "return">>,
     <<"LW_EXCLUSIVE", "SpinLockAcquire(mutex)", "SpinLockRelease(mutex)",
       "LWLockRelease", "return">>}

(* sddb_delete_entry, lines 316-323 *)
delete_paths ==
    {<<"LW_EXCLUSIVE", "LWLockRelease",
       "SpinLockAcquire(elock)", "SpinLockRelease(elock)", "return">>}

(* sddb_show_db, functions.c lines 593-619: not a member of *)
(* pg_read_all_stats; a member                              *)
show_paths ==
    {<<"return">>, <<"LW_SHARED", "LWLockRelease", "return">>}

(* the counters' sections of sddb_killer_main, bgworker.c lines 396-399, *)
(* 431-434 and 475-478                                                   *)
Elock == <<"SpinLockAcquire(elock)", "SpinLockRelease(elock)">>

(* sddb_killer_main, bgworker.c lines 394-484: sddb_set_pid2entry and   *)
(* the increment, then WaitLatch and one of: SIGTERM seen; the query    *)
(* fails; the query returns 0; the query returns more, and the next     *)
(* WaitLatch sees SIGTERM                                               *)
killer_paths ==
    {set \o Elock \o rest :
        set \in field_paths,
        rest \in {<<"WaitLatch">> \o Elock \o <<"proc_exit">>,
                  <<"WaitLatch", "SPI_execute", "proc_exit">>,
                  <<"WaitLatch", "SPI_execute", "WaitLatch">> \o Elock
                     \o <<"proc_exit">>}
                 \cup {<<"WaitLatch", "SPI_execute">> \o unset \o Elock
                           \o <<"proc_exit">> : unset \in field_paths}}

RegistryOps ==
    {"sddb_store_entry", "sddb_find_entry", "sddb_get_pid", "sddb_set_entry",
     "sddb_set_pid2entry", "sddb_delete_entry", "sddb_show_db"}

Paths(op) ==
    CASE op = "sddb_store_entry" -> store_paths
      [] op = "sddb_find_entry" -> find_paths
      [] op \in {"sddb_get_pid", "sddb_set_entry", "sddb_set_pid2entry"} ->
            field_paths
      [] op = "sddb_delete_entry" -> delete_paths
      [] op = "sddb_show_db" -> show_paths
      [] op = "sddb_killer_main" -> killer_paths

(* the variables of the model of the functions' effects *)
effects ==
    <<sddb_hash, freelist, num_ht, num_bgw, proc, datallowconn, ncalls,
      committed, covered, answers, orphans>>

(* a backend calls a registry operation; the killer worker starts *)
LockCall(p) ==
    /\ lk[p].op = "none"
    /\ \E op \in (IF p \in Backends THEN RegistryOps
                   ELSE {"sddb_killer_main"}) :
          \E path \in Paths(op) :
             lk' = [lk EXCEPT ![p] = [LkIdle EXCEPT !.op = op, !.todo = path]]
    /\ UNCHANGED effects

(* LWLockAcquire(sddb->lock, mode): shared waits for an exclusive *)
(* holder, exclusive for every holder                             *)
CanAcquire(p, mode) ==
    \A q \in Lockers \ {p} :
        IF mode = "LW_SHARED" THEN lk[q].lock # "LW_EXCLUSIVE"
        ELSE lk[q].lock = "none"

LWLockAcquire(p) ==
    /\ lk[p].todo # <<>>
    /\ Head(lk[p].todo) \in {"LW_SHARED", "LW_EXCLUSIVE"}
    /\ CanAcquire(p, Head(lk[p].todo))
    /\ lk' = [lk EXCEPT ![p].lock = Head(lk[p].todo), ![p].took = TRUE,
                        ![p].todo = Tail(lk[p].todo)]
    /\ UNCHANGED effects

LWLockRelease(p) ==
    /\ lk[p].todo # <<>>
    /\ Head(lk[p].todo) = "LWLockRelease"
    /\ lk' = [lk EXCEPT ![p].lock = "none", ![p].todo = Tail(lk[p].todo)]
    /\ UNCHANGED effects

(* SpinLockAcquire: the mutex of the record, or elock *)
SpinLockAcquire(p) ==
    /\ lk[p].todo # <<>>
    /\ Head(lk[p].todo) \in {"SpinLockAcquire(mutex)", "SpinLockAcquire(elock)"}
    /\ LET l == IF Head(lk[p].todo) = "SpinLockAcquire(mutex)"
                THEN "mutex" ELSE "elock"
       IN  /\ \A q \in Lockers \ {p} : lk[q].spin # l
           /\ lk' = [lk EXCEPT ![p].spin = l, ![p].todo = Tail(lk[p].todo)]
    /\ UNCHANGED effects

SpinLockRelease(p) ==
    /\ lk[p].todo # <<>>
    /\ Head(lk[p].todo) \in {"SpinLockRelease(mutex)", "SpinLockRelease(elock)"}
    /\ lk' = [lk EXCEPT ![p].spin = "none", ![p].todo = Tail(lk[p].todo)]
    /\ UNCHANGED effects

(* the killer worker sleeps in WaitLatch or runs its query *)
bgw_block(p) ==
    /\ lk[p].todo # <<>>
    /\ Head(lk[p].todo) \in {"WaitLatch", "SPI_execute"}
    /\ lk' = [lk EXCEPT ![p].todo = Tail(lk[p].todo)]
    /\ UNCHANGED effects

(* a registry operation returns to its caller, which in the killer *)
(* worker goes on; proc_exit ends the worker                       *)
LockReturn(p) ==
    /\ lk[p].todo # <<>>
    /\ Head(lk[p].todo) \in {"return", "proc_exit"}
    /\ lk' = [lk EXCEPT ![p] =
                 IF Tail(lk[p].todo) = <<>>
                 THEN [lk[p] EXCEPT !.op = "none", !.todo = <<>>,
                                    !.took = FALSE]
                 ELSE [lk[p] EXCEPT !.todo = Tail(lk[p].todo),
                                    !.took = FALSE]]
    /\ UNCHANGED effects

NextLock ==
    \E p \in Lockers :
        \/ LockCall(p)
        \/ LWLockAcquire(p)
        \/ LWLockRelease(p)
        \/ SpinLockAcquire(p)
        \/ SpinLockRelease(p)
        \/ bgw_block(p)
        \/ LockReturn(p)

SpecLock == Init /\ [][NextLock]_vars

(* the lock or spinlock a process asks for next, "none" if its next call *)
(* is not an acquisition                                                 *)
Wanted(p) ==
    IF lk[p].todo = <<>> THEN "none"
    ELSE CASE Head(lk[p].todo) \in {"LW_SHARED", "LW_EXCLUSIVE"} -> "lock"
           [] Head(lk[p].todo) = "SpinLockAcquire(mutex)" -> "mutex"
           [] Head(lk[p].todo) = "SpinLockAcquire(elock)" -> "elock"
           [] OTHER -> "none"

(* the processes that hold what p asks for and make it wait *)
Blockers(p) ==
    {q \in Lockers \ {p} :
        CASE Wanted(p) = "lock" ->
                IF Head(lk[p].todo) = "LW_SHARED"
                THEN lk[q].lock = "LW_EXCLUSIVE" ELSE lk[q].lock # "none"
          [] Wanted(p) \in {"mutex", "elock"} -> lk[q].spin = Wanted(p)
          [] OTHER -> FALSE}

Blocked(p) == Blockers(p) # {}

WantsExclusive(p) ==
    lk[p].todo # <<>> /\ Head(lk[p].todo) = "LW_EXCLUSIVE"

(* the registry operations a backend calls: functions.c lines 284-527, *)
(* shutdown_db.c line 254 and sddb_show_db                             *)
BackendOps ==
    {"sddb_store_entry", "sddb_find_entry", "sddb_get_pid",
     "sddb_delete_entry", "sddb_show_db"}

(* the sections of sddb_killer_main, bgworker.c lines 394-484, one at a *)
(* time: sddb_set_pid2entry or sddb_set_entry, a counter's section,     *)
(* WaitLatch, the query, proc_exit. The worker holds no lock from one   *)
(* section to the next, and its loop runs them any number of times.     *)
killer_sections ==
    field_paths
    \cup {Elock \o <<"return">>, <<"WaitLatch", "return">>,
          <<"SPI_execute", "return">>, <<"proc_exit">>}

(* a backend calls a registry operation; the killer worker enters its *)
(* next section                                                       *)
LockCallFair(p) ==
    /\ lk[p].op = "none"
    /\ \E op \in (IF p \in Backends THEN BackendOps
                   ELSE {"sddb_killer_main"}) :
          \E path \in (IF p \in Backends THEN Paths(op)
                        ELSE killer_sections) :
             lk' = [lk EXCEPT ![p] = [LkIdle EXCEPT !.op = op, !.todo = path]]
    /\ UNCHANGED effects

NextLockFair ==
    \E p \in Lockers :
        \/ LockCallFair(p)
        \/ LWLockAcquire(p)
        \/ LWLockRelease(p)
        \/ SpinLockAcquire(p)
        \/ SpinLockRelease(p)
        \/ bgw_block(p)
        \/ LockReturn(p)

(* fair scheduling: a process that can run its next call runs it; a   *)
(* process that waits for sddb->lock is on the wait list of the lock  *)
(* and a process that waits for a spinlock keeps trying, so one for   *)
(* which the lock is free again and again gets it. A waiting process  *)
(* does not keep others from the lock: LWLockAcquire in shared mode   *)
(* looks at the holders only. Nothing is assumed of WaitLatch and of  *)
(* the query of the killer worker.                                    *)
SpecLockFair ==
    /\ Init
    /\ [][NextLockFair]_vars
    /\ \A p \in Lockers :
          /\ SF_vars(LWLockAcquire(p))
          /\ SF_vars(SpinLockAcquire(p))
          /\ WF_vars(LWLockRelease(p))
          /\ WF_vars(SpinLockRelease(p))
          /\ WF_vars(LockReturn(p))

(* ---- the server under repeated shutdown_transactional and startup ---- *)
(* ---- of one database                                               ---- *)
NextCycle ==
    \/ \E p \in Backends :
          \/ CallCycle(p)
          \/ do_alter_database(p)
          \/ run_sddb_killer(p)
          \/ kill_bgworker(p)
          \/ abort_transaction(p)
          \/ Finish(p)
    \/ \E w \in KillerPids :
          \/ bgw_inc(w)
          \/ bgw_loop(w)
          \/ bgw_wait(w)
          \/ bgw_query(w)
          \/ bgw_dec(w)
    \/ \E p \in Procs :
          \/ StoreStep(p)
          \/ find_quick(p)
          \/ find_lookup(p)
          \/ sddb_get_pid(p)
          \/ sddb_set_entry(p)
          \/ sddb_set_pid2entry(p)
          \/ DeleteStep(p)

SpecCycle == Init /\ [][NextCycle]_vars

(* the server with killer workers that are scheduled: a worker that can *)
(* take sddb->lock or elock gets it in the end and goes on              *)
SpecLive ==
    /\ Init
    /\ [][Next]_vars
    /\ \A w \in KillerPids :
          WF_vars(sddb_set_entry(w)) /\ WF_vars(bgw_dec(w))

(***************************************************************************)
(* The properties                                                          *)
(***************************************************************************)

(* no registry operation that changes the table or num_ht is in progress *)
NoMutation == \A p \in Procs : proc[p].pc \notin StorePcs \cup DeletePcs

(* the table, the free list and the counters stay as they are *)
RegistryUnchanged ==
    /\ sddb_hash' = sddb_hash
    /\ freelist' = freelist
    /\ num_ht' = num_ht
    /\ num_bgw' = num_bgw

(* C1: a sddb_store_entry(d, m, r) that meets a record of d, in its probe *)
(* or in its exclusive section (two stores of d that both passed the     *)
(* probe), returns false there and changes neither the table nor num_ht. *)
C1_StoreOfExistingKeyFails ==
    [][\A p \in Backends :
          (/\ proc[p].pc \in {"store_probe", "store_excl"}
           /\ proc'[p] # proc[p]
           /\ proc[p].dbid \in Keys)
          => /\ RegistryUnchanged
             /\ proc'[p].pc = "idle"
             /\ proc'[p].ret = FALSE]_vars

C3_CounterIsNumberOfRecords ==
    NoMutation => num_ht = Cardinality(Keys)

(* C4: processes that store and delete keys of their own only: once     *)
(* every call has returned, num_ht is the number of keys whose last     *)
(* successful store has no delete after it.                             *)
C4_NoLostUpdate ==
    (\A p \in Backends : proc[p].pc = "idle")
       => num_ht = Cardinality(committed)

(* C5: a sddb_find_entry(d, false) that is called after a store of d has *)
(* returned true, with no delete of d issued since then or during the   *)
(* call, returns true.                                                  *)
C5_FindAfterStore ==
    [][\A p \in Backends :
          (/\ p \in covered
           /\ proc[p].pc \in FindPcs
           /\ proc'[p].pc \notin FindPcs)
          => proc'[p].ret = TRUE]_vars

(* C6: sddb_delete_entry(d) removes the record of d and takes one from  *)
(* num_ht when d has a record; when d has none, the table and num_ht    *)
(* stay as they are.                                                    *)
C6_DeleteOfAbsentKeyIsNoOp ==
    [][\A p \in Backends :
          /\ (proc[p].pc = "delete_rm" /\ proc'[p] # proc[p])
                => /\ Keys' = Keys \ {proc[p].dbid}
                   /\ num_ht' = num_ht
          /\ (proc[p].pc = "delete_dec" /\ proc'[p] # proc[p])
                => /\ Keys' = Keys
                   /\ num_ht' = IF proc[p].entry # NULL
                                THEN num_ht - 1 ELSE num_ht]_vars

(* C7: the value a sddb_find_entry(d, running_only) returns is an answer *)
(* that was correct in some state the call went through.                *)
C7_FindIsCorrectAtSomeInstant ==
    [][\A p \in Backends :
          (proc[p].pc \in FindPcs /\ proc'[p].pc \notin FindPcs)
          => proc'[p].ret \in answers[p]]_vars

(* C8: a pid a watcher has put into a record stays there for as long as  *)
(* the record is in the table; and sddb_get_pid(d, active) returns       *)
(* InvalidPid when d has no record or when active is set and is_running  *)
(* is not, and the pid of the record otherwise.                          *)
C8_WatcherPidPersists ==
    [][/\ \A s \in Slots :
             (/\ InUse(s)
              /\ \A i \in 1 .. Len(freelist') : freelist'[i] # s
              /\ sddb_hash[s].pid \in KillerPids)
             => sddb_hash'[s].pid = sddb_hash[s].pid
       /\ \A p \in Backends :
             (proc[p].pc = "get_pid" /\ proc'[p] # proc[p])
             => proc'[p].pid =
                   IF proc[p].dbid \notin Keys THEN InvalidPid
                   ELSE IF proc[p].is_running /\ ~Rec(proc[p].dbid).is_running
                        THEN InvalidPid
                        ELSE Rec(proc[p].dbid).pid]_vars

C10_ShutdownOfShutDownDatabase ==
    [][\A p \in Backends :
          (/\ proc[p].fn \in ShutdownFns
           /\ proc[p].had_record
           /\ proc[p].pc # "exit"
           /\ proc'[p] # proc[p])
          => /\ RegistryUnchanged
             /\ datallowconn' = datallowconn
             /\ proc'[p].did = <<>>
             /\ \A w \in KillerPids : proc'[w] = proc[w]
             /\ proc'[p].pc = "exit" => proc'[p].outcome = "WARNING"]_vars

(* the shutdown functions that start no watcher *)
NonTransactional == ShutdownFns \ {"shutdown_transactional"}

(* what a shutdown function does besides the insert, in order *)
Steps(fn) ==
    CASE fn = "shutdown_normal" -> <<"alter">>
      [] fn = "shutdown_abort" -> <<"alter", "kill_pids", "checkpoint">>
      [] fn = "shutdown_immediate" -> <<"alter", "kill_pids">>
      [] fn = "shutdown_transactional" -> <<"alter", "launch">>

(* C11: a non-transactional shutdown that found no record of its        *)
(* database does, in this order and nothing else: ALTER DATABASE, the   *)
(* insert of the record (requested mode, is_running unset), then the    *)
(* termination of sessions (ABORT, IMMEDIATE) and the checkpoint        *)
(* (ABORT); it starts no watcher.                                       *)
C11_NonTransactionalOrder ==
    [][\A p \in Backends :
          LET f == proc[p]
              g == proc'[p]
          IN  (/\ f.fn \in NonTransactional
               /\ g # f
               /\ f.pc \notin {"idle", "exit", "error"} \cup FindPcs
               /\ g.pc # "error")
              => /\ \E n \in 0 .. Len(Steps(f.fn)) :
                       g.did = SubSeq(Steps(f.fn), 1, n)
                 /\ \A w \in KillerPids : proc'[w] = proc[w]
                 /\ (f.pc \in StorePcs /\ g.pc \notin StorePcs)
                       => /\ g.ret = TRUE
                          /\ g.did = <<"alter">>
                          /\ ~datallowconn'[f.dbid]
                          /\ \E s \in Slots :
                                /\ \A i \in 1 .. Len(freelist') :
                                      freelist'[i] # s
                                /\ sddb_hash'[s] =
                                      [key |-> f.dbid,
                                       mode |-> StoreMode(f.fn),
                                       is_running |-> FALSE,
                                       pid |-> InvalidPid]
                 /\ g.pc = "exit" => g.did = Steps(f.fn)]_vars

(* C12: shutdown_transactional starts the watcher after its insert of  *)
(* the record has succeeded, the database has a record when the        *)
(* watcher is started, and the watcher's sddb_set_pid2entry finds the  *)
(* record and stores the pid in it.                                    *)
C12_InsertBeforeWatcher ==
    [][/\ \A p \in Backends :
             (proc[p].pc = "launch" /\ proc'[p].pc = "exit")
             => /\ proc[p].ret = TRUE
                /\ proc[p].dbid \in Keys
       /\ \A w \in KillerPids :
             (proc[w].pc = "set_pid2entry" /\ proc'[w].pc # "set_pid2entry")
             => /\ proc[w].dbid \in Keys
                /\ \E s \in Slots :
                      /\ \A i \in 1 .. Len(freelist') : freelist'[i] # s
                      /\ sddb_hash'[s].key = proc[w].dbid
                      /\ sddb_hash'[s].pid = w]_vars

(* a watcher of database d is alive *)
LiveWatcher(d) ==
    \E w \in KillerPids :
        proc[w].pc \notin {"unborn", "exited"} /\ proc[w].dbid = d

(* C13: when shutdown_transactional ends with the ERROR of a watcher   *)
(* that could not be started, the registry does not hold a record of   *)
(* the database with is_running set and no live watcher.               *)
C13_FailedSpawnLeavesNoRecord ==
    \A p \in Backends :
        (/\ proc[p].fn = "shutdown_transactional"
         /\ proc[p].pc = "exit"
         /\ proc[p].outcome = "ERROR"
         /\ proc[p].ret = TRUE)
        => ~(/\ proc[p].dbid \in Keys
             /\ Rec(proc[p].dbid).is_running
             /\ ~LiveWatcher(proc[p].dbid))

(* the oids of the databases no request may name *)
ProtectedOids ==
    {Oid[n] : n \in {m \in DbNames :
                        Lower[m] \in {"postgres", "template0", "template1"}}}

(* C14: a shutdown or startup request that names postgres, template0 or *)
(* template1, in any letter case, ends with ERROR and has no effect: it *)
(* never gets past the check of the name, and no protected database     *)
(* gets a record or loses its allow-connections flag.                   *)
C14_ProtectedNamesRejected ==
    /\ [](\A p \in Backends :
             proc[p].fn \in ShutdownFns \cup {"startup"}
             => proc[p].dbid \notin ProtectedOids)
    /\ [](\A d \in ProtectedOids : d \notin Keys /\ datallowconn[d])
    /\ [][\A p \in Backends :
             (/\ proc[p].pc = "idle"
              /\ \E n \in DbNames, fn \in ShutdownFns \cup {"startup"} :
                    /\ Oid[n] \in ProtectedOids
                    /\ proc'[p].msg = n \o Refusal(fn))
             => /\ proc'[p].pc = "exit"
                /\ proc'[p].outcome = "ERROR"
                /\ proc'[p].did = <<>>
                /\ RegistryUnchanged
                /\ datallowconn' = datallowconn
                /\ \A w \in KillerPids : proc'[w] = proc[w]]_vars

(* C14 happens: a request that names Template0 has been refused *)
C14_Witness ==
    \E p \in Backends :
        /\ proc[p].pc = "exit"
        /\ proc[p].outcome = "ERROR"
        /\ proc[p].msg = "Template0 cannot be shutdown."

(* the record of d in the next state has is_running set *)
RunningNext(d) == PresentNext(d, TRUE)

(* C15: startup of a database that has a record allows connections     *)
(* again, sends SIGTERM to the watcher of the database when the record *)
(* shows is_running, removes the record, and takes one from num_ht for *)
(* the record it removed; when it returns the database has no record.  *)
C15_StartupRemovesRecord ==
    [][\A p \in Backends :
          LET f == proc[p]
              g == proc'[p]
          IN  (f.fn = "startup" /\ g # f /\ g.pc # "error")
              => /\ f.pc = "alter" => datallowconn'[f.dbid]
                 /\ (/\ f.pc = "get_pid"
                     /\ f.dbid \in Keys
                     /\ Rec(f.dbid).is_running
                     /\ LiveWatcher(f.dbid))
                       => /\ g.pc = "kill_bgworker"
                          /\ g.pid \in KillerPids
                          /\ proc[g.pid].dbid = f.dbid
                 /\ f.pc = "kill_bgworker"
                       => (proc[f.pid].pc \notin {"unborn", "exited"}
                              => proc'[f.pid].got_sigterm)
                 /\ f.pc = "delete_rm"
                       => f.dbid \in Keys /\ ~PresentNext(f.dbid, FALSE)
                 /\ f.pc = "delete_dec"
                       => /\ f.entry # NULL
                          /\ num_ht' = num_ht - 1
                          /\ ~PresentNext(f.dbid, FALSE)]_vars

(* C16: when startup removes the record of d, every watcher of d that *)
(* is alive has been sent SIGTERM.                                    *)
C16_WatcherSignalledBeforeRemoval ==
    [][\A p \in Backends :
          (/\ proc[p].fn = "startup"
           /\ proc[p].pc = "delete_rm"
           /\ proc'[p] # proc[p]
           /\ proc[p].dbid \in Keys)
          => \A w \in KillerPids :
                (proc[w].pc \notin {"unborn", "exited"}
                 /\ proc[w].dbid = proc[p].dbid)
                => proc[w].got_sigterm]_vars

C18_SigtermGoesThroughCancelled ==
    [][\A w \in KillerPids :
          (/\ proc[w].got_sigterm
           /\ proc[w].pc \in {"loop", "wait"}
           /\ proc'[w].pc # proc[w].pc)
          => /\ proc'[w].pc = "exited"
             /\ proc'[w].outcome = "proc_exit(0)"
             /\ num_bgw' = num_bgw - 1
             /\ sddb_hash' = sddb_hash]_vars

(* C19: when a watcher exits, the record of its database, if the       *)
(* database has one, has is_running unset.                             *)
C19_NoRunningRecordAfterExit ==
    [][\A w \in KillerPids :
          (proc[w].pc \notin {"unborn", "exited"} /\ proc'[w].pc = "exited")
          => ~RunningNext(proc[w].dbid)]_vars

(* C20: a record whose pid is InvalidPid has is_running unset. *)
C20_NoPidNotRunning ==
    \A s \in Slots :
        (InUse(s) /\ sddb_hash[s].pid = InvalidPid)
        => ~sddb_hash[s].is_running

(* the killer workers that have run the increment of lines 396-399 and *)
(* have not exited                                                     *)
Counted ==
    {w \in KillerPids :
        proc[w].pc \in {"loop", "wait", "query", "set_entry", "bgw_dec"}}

(* C21: num_bgw is the number of watchers that have done their start-up *)
(* increment and have not exited.                                       *)
C21_WatcherCount ==
    num_bgw = Cardinality(Counted)

(* C23: a hook that runs in a session of a database whose record was   *)
(* stored before the hook began, with no removal of it issued before   *)
(* the hook returns, warns the session unless it is in a transaction   *)
(* block; it warns no session that is in a transaction block.          *)
C23_HookWarnsForEveryRecord ==
    \A p \in Backends :
        (proc[p].fn = "sddb_ExecutorStart" /\ proc[p].pc = "exit")
        => /\ (/\ proc[p].had_record
               /\ proc[p].dbid \in committed
               /\ ~proc[p].xact_block)
                 => proc[p].outcome = "WARNING"
           /\ proc[p].outcome = "WARNING" => ~proc[p].xact_block

(* C26: a shutdown request whose insert found the table full ends with *)
(* ERROR, its change of pg_database undone, and has terminated no      *)
(* session, forced no checkpoint and started no watcher.               *)
C26_FullTableFailsRequest ==
    \A p \in Backends :
        (/\ proc[p].fn \in ShutdownFns
         /\ proc[p].pc = "exit"
         /\ proc[p].msg = "hash table is full")
        => /\ proc[p].outcome = "ERROR"
           /\ proc[p].undo = "none"
           /\ \A i \in 1 .. Len(proc[p].did) :
                 proc[p].did[i] \notin {"kill_pids", "checkpoint", "launch"}

(* C28: in every state num_ht counts exactly the records in the table, *)
(* and the quick check of num_ht in sddb_find_entry and sddb_check_ht  *)
(* never answers false for a database that has a record.               *)
C28_RecordAndCounterTogether ==
    /\ [](num_ht = Cardinality(Keys))
    /\ [][\A p \in Procs :
             (/\ proc[p].pc \in {"find_quick", "check_ht"}
              /\ num_ht = 0
              /\ proc'[p].pc # proc[p].pc)
             => proc[p].dbid \notin Keys]_vars

Polling(w) == proc[w].pc \in {"loop", "wait", "query"}

(* C22: while a watcher polls a database whose record has not been    *)
(* removed since the watcher was launched, that record has is_running *)
(* set; and no watcher launched for an earlier record of the database *)
(* unsets is_running in the record the database has now.              *)
C22_RunningWhileWatcherPolls ==
    /\ [](\A w \in KillerPids :
             (Polling(w) /\ w \notin orphans /\ proc[w].dbid \in Keys)
             => Rec(proc[w].dbid).is_running)
    /\ [][\A w \in orphans :
             (proc[w].pc = "set_entry" /\ proc'[w].pc # "set_entry")
             => sddb_hash' = sddb_hash]_vars

(* C30: num_ht and num_bgw are never negative. *)
C30_CountersNotNegative ==
    num_ht >= 0 /\ num_bgw >= 0

(* C25: when the worker of server start has run on the empty registry   *)
(* and exited with status 0, the registry holds one record (INIT,       *)
(* is_running unset, no pid) for each database that disallows           *)
(* connections and is not postgres, template0 or template1, and no      *)
(* other record; num_ht is their number; no killer worker exists.       *)
C25_BootstrapLoadsRegistry ==
    (/\ proc[InitWorker].pc = "exited"
     /\ proc[InitWorker].outcome = "proc_exit(0)")
    => /\ Keys = DisallowedDbs
       /\ \A k \in Keys :
             Rec(k) = [key |-> k, mode |-> INIT,
                       is_running |-> FALSE, pid |-> InvalidPid]
       /\ num_ht = Cardinality(DisallowedDbs)
       /\ \A w \in KillerPids : proc[w].pc = "unborn"

(* C27: a process takes the mutex of a record only in an operation in  *)
(* which it has acquired sddb->lock before; it holds neither          *)
(* sddb->lock nor a mutex when an operation returns or the worker     *)
(* exits; and it does not hold sddb->lock in WaitLatch or in the      *)
(* query.                                                             *)
C27_LockDiscipline ==
    \A p \in Lockers :
        /\ lk[p].spin = "mutex" => lk[p].took
        /\ lk[p].op = "none" => lk[p].lock = "none" /\ lk[p].spin = "none"
        /\ (lk[p].todo # <<>>
            /\ Head(lk[p].todo) \in
                  {"return", "proc_exit", "WaitLatch", "SPI_execute"})
             => lk[p].lock = "none" /\ lk[p].spin = "none"

(* C27 happens: sddb_find_entry holds the mutex of a record, after it  *)
(* has released sddb->lock, while another process holds sddb->lock in  *)
(* exclusive mode                                                      *)
C27_Witness ==
    \E p, q \in Lockers :
        /\ lk[p].op = "sddb_find_entry"
        /\ lk[p].spin = "mutex"
        /\ lk[p].lock = "none"
        /\ lk[q].lock = "LW_EXCLUSIVE"

(* a process is in the section of sddb_set_entry or sddb_set_pid2entry *)
(* that writes the field                                               *)
Updating(p) ==
    /\ lk[p].op \in {"sddb_set_entry", "sddb_set_pid2entry"}
    /\ lk[p].spin = "mutex"

(* C29: while sddb_set_entry or sddb_set_pid2entry updates a field it *)
(* holds sddb->lock in shared mode, and a sddb_find_entry or          *)
(* sddb_show_db that asks for the lock meanwhile gets it.             *)
C29_UpdateDoesNotBlockReaders ==
    \A p \in Lockers :
        Updating(p)
        => /\ lk[p].lock = "LW_SHARED"
           /\ \A q \in Lockers \ {p} :
                 (/\ lk[q].op \in {"sddb_find_entry", "sddb_show_db"}
                  /\ lk[q].todo # <<>>
                  /\ Head(lk[q].todo) = "LW_SHARED")
                 => CanAcquire(q, "LW_SHARED")

(* the killer workers that are alive for database d *)
Watchers(d) ==
    {w \in KillerPids :
        proc[w].pc \notin {"unborn", "exited"} /\ proc[w].dbid = d}

(* C31: at most one watcher is alive for a database. *)
C31_OneWatcherPerDatabase ==
    \A d \in Databases : Cardinality(Watchers(d)) <= 1

(* C33: a watcher whose database has had its record removed by startup *)
(* exits in the end, whatever its queries return.                      *)
C33_OrphanWatcherExits ==
    \A w \in KillerPids :
        (w \in orphans) ~> (proc[w].pc = "exited")

(* the order of the locks: a process that holds a spinlock asks for no *)
(* lock, and a process that holds sddb->lock does not ask for it again *)
LockOrder ==
    \A p \in Lockers :
        /\ lk[p].spin # "none" => Wanted(p) = "none"
        /\ lk[p].lock # "none" => Wanted(p) # "lock"

(* every process that waits, waits for a process that can run, or for *)
(* one that waits for a process that can run                          *)
NoWaitCycle ==
    \A p \in Lockers :
        Blocked(p)
        => \E q \in Blockers(p) :
              \/ ~Blocked(q)
              \/ \E r \in Blockers(q) : ~Blocked(r)

(* C32 as stated: the locks are taken in a fixed order, no state is a *)
(* deadlock, and under fair scheduling every process that asks for a  *)
(* lock gets it and every registry operation a backend has started    *)
(* returns.                                                           *)
C32_EveryOperationReturns ==
    /\ [](LockOrder /\ NoWaitCycle)
    /\ \A p \in Lockers : (Wanted(p) # "none") ~> (Wanted(p) = "none")
    /\ \A p \in Backends : (lk[p].op # "none") ~> (lk[p].op = "none")

(* C32, amended: the locks are taken in a fixed order and no state is  *)
(* a deadlock; under fair scheduling every process that asks for a     *)
(* spinlock or for sddb->lock in shared mode gets it, every process    *)
(* that holds a lock releases it, every registry operation of a        *)
(* backend goes on until it returns or asks for sddb->lock in          *)
(* exclusive mode, and a process asks for the exclusive lock for ever  *)
(* only if from some time on the lock is held in shared mode without   *)
(* a gap.                                                              *)
C32_NoDeadlock ==
    /\ [](LockOrder /\ NoWaitCycle)
    /\ \A p \in Lockers :
          /\ (Wanted(p) # "none" /\ ~WantsExclusive(p))
                ~> (Wanted(p) = "none")
          /\ (lk[p].lock # "none" \/ lk[p].spin # "none")
                ~> (lk[p].lock = "none" /\ lk[p].spin = "none")
          /\ <>[]WantsExclusive(p)
                => <>[](\E q \in Lockers \ {p} : lk[q].lock = "LW_SHARED")
    /\ \A p \in Backends :
          (lk[p].op # "none") ~> (lk[p].op = "none" \/ WantsExclusive(p))

(* C32 happens: a process waits for sddb->lock, held in exclusive mode *)
(* by a process that waits for the mutex of the record, held by a      *)
(* third process                                                       *)
C32_Witness ==
    \E p, q, r \in Lockers :
        /\ Wanted(p) = "lock"
        /\ q \in Blockers(p)
        /\ lk[q].lock = "LW_EXCLUSIVE"
        /\ Wanted(q) = "mutex"
        /\ r \in Blockers(q)

====
